---------------------------- MODULE Spec2Model ----------------------------
(***************************************************************************)
(* Messenger-Analysis: the loading and cleaning of exported chat logs.     *)
(*                                                                         *)
(* The file system under the chosen directory is the input: a listing of   *)
(* entries, each a stray file or a conversation folder holding JSON files, *)
(* each file a "title" and (possibly) a "messages" list of records.        *)
(* chat_analysis() runs single_folder.clean_messages on one folder or      *)
(* all_folders.clean_messages on the whole directory; the outcome is the   *)
(* DataFrame it returns or the exception that leaves it.                   *)
(*                                                                         *)
(* Text is a sequence of code points.  A cell of a DataFrame is <<>> for   *)
(* NaN/None and <<v>> for the value v.  A timestamp counts half hours      *)
(* since 2023-11-05 00:00 UTC, the day America/Toronto leaves daylight     *)
(* saving time.                                                            *)
(***************************************************************************)
EXTENDS Integers, Sequences, FiniteSets, TLC

VARIABLES root, pc, mode, chosen, result, shown,
          directory, all_items, item, previous_name

\* the state of rename_folders
renaming == <<directory, all_items, item, previous_name>>

vars == <<root, pc, mode, chosen, result, shown, renaming>>

(***************************************************************************)
(* Bounds of the model.                                                    *)
(***************************************************************************)
\* entries of the directory, files and records, counted together
MaxNodes == 5

\* records in all files together
MaxRecords == 2

\* text messages of the conversation the menu is shown for
MaxTexts == 2

(***************************************************************************)
(* Generic helpers.                                                        *)
(***************************************************************************)
NaN == <<>>

IsNa(cell) == cell = <<>>

Val(cell) == cell[1]

RECURSIVE SumSeq(_)
SumSeq(s) == IF s = <<>> THEN 0 ELSE Head(s) + SumSeq(Tail(s))

RECURSIVE Flatten(_)
Flatten(ss) == IF ss = <<>> THEN <<>> ELSE Head(ss) \o Flatten(Tail(ss))

\* str.__contains__ / Series.str.contains with a literal pattern
Contains(s, sub) ==
    \E i \in 1..(Len(s) - Len(sub) + 1) : SubSeq(s, i, i + Len(sub) - 1) = sub

(***************************************************************************)
(* chat_features.unicode_emoji_converter:                                  *)
(*     unicode_str.encode('latin1').decode('utf8')                         *)
(* The outcome is [ok, text]; ok = FALSE stands for the UnicodeEncodeError *)
(* or UnicodeDecodeError the call raises (it has no handler).              *)
(***************************************************************************)
EncodeLatin1Ok(s) == \A i \in 1..Len(s) : s[i] <= 255

IsCont(b) == b >= 128 /\ b <= 191

\* Number of bytes of the UTF-8 sequence a lead byte announces; 0: no lead byte.
Utf8Width(b) ==
    IF b <= 127 THEN 1
    ELSE IF b >= 194 /\ b <= 223 THEN 2
    ELSE IF b >= 224 /\ b <= 239 THEN 3
    ELSE IF b >= 240 /\ b <= 244 THEN 4
    ELSE 0

\* The second byte's range depends on the lead byte (no overlong forms, no
\* surrogates, nothing above U+10FFFF).
SecondOk(b1, b2) ==
    /\ IsCont(b2)
    /\ (b1 = 224 => b2 >= 160)
    /\ (b1 = 237 => b2 <= 159)
    /\ (b1 = 240 => b2 >= 144)
    /\ (b1 = 244 => b2 <= 143)

Utf8WellFormedAt(bs, i) ==
    LET w == Utf8Width(bs[i]) IN
    /\ w > 0
    /\ i + w - 1 <= Len(bs)
    /\ (w >= 2 => SecondOk(bs[i], bs[i + 1]))
    /\ \A k \in 2..(w - 1) : IsCont(bs[i + k])

Utf8CodePoint(bs, i) ==
    LET w == Utf8Width(bs[i]) IN
    IF w = 1 THEN bs[i]
    ELSE IF w = 2 THEN (bs[i] - 192) * 64 + (bs[i + 1] - 128)
    ELSE IF w = 3 THEN (bs[i] - 224) * 4096 + (bs[i + 1] - 128) * 64
                       + (bs[i + 2] - 128)
    ELSE (bs[i] - 240) * 262144 + (bs[i + 1] - 128) * 4096
         + (bs[i + 2] - 128) * 64 + (bs[i + 3] - 128)

RECURSIVE DecodeUtf8From(_, _)
DecodeUtf8From(bs, i) ==
    IF i > Len(bs) THEN [ok |-> TRUE, text |-> <<>>]
    ELSE IF ~Utf8WellFormedAt(bs, i) THEN [ok |-> FALSE, text |-> <<>>]
    ELSE LET rest == DecodeUtf8From(bs, i + Utf8Width(bs[i])) IN
         [ok |-> rest.ok,
          text |-> IF rest.ok THEN <<Utf8CodePoint(bs, i)>> \o rest.text ELSE <<>>]

unicode_emoji_converter(s) ==
    IF ~EncodeLatin1Ok(s) THEN [ok |-> FALSE, text |-> <<>>]
    ELSE DecodeUtf8From(s, 1)

(***************************************************************************)
(* chat_features.prep_text(s, cap=False) and word_count.                   *)
(* re.sub(r'[^\w\d\s\']+', '', s) keeps word characters, white space and   *)
(* the apostrophe; s.split() splits on runs of white space.                *)
(***************************************************************************)
\* \w of a str pattern: alphanumerics of Unicode and the underscore.  Above
\* Latin-1 the model holds only emoji code points, none of them alphanumeric.
IsWordChar(c) ==
    \/ c >= 48 /\ c <= 57
    \/ c >= 65 /\ c <= 90
    \/ c >= 97 /\ c <= 122
    \/ c = 95
    \/ c \in {170, 178, 179, 181, 185, 186, 188, 189, 190}
    \/ c >= 192 /\ c <= 255 /\ c # 215 /\ c # 247

\* \s of a str pattern, and the characters str.split() splits on
IsSpace(c) ==
    \/ c >= 9 /\ c <= 13
    \/ c >= 28 /\ c <= 32
    \/ c = 133
    \/ c = 160

Apostrophe == 39

KeepChar(c) == IsWordChar(c) \/ IsSpace(c) \/ c = Apostrophe

StripNonWord(s) == SelectSeq(s, KeepChar)

\* str.split(): the maximal runs of non-space characters
RECURSIVE SplitFrom(_, _, _)
SplitFrom(s, i, cur) ==
    IF i > Len(s) THEN (IF cur = <<>> THEN <<>> ELSE <<cur>>)
    ELSE IF IsSpace(s[i])
         THEN (IF cur = <<>> THEN <<>> ELSE <<cur>>) \o SplitFrom(s, i + 1, <<>>)
         ELSE SplitFrom(s, i + 1, Append(cur, s[i]))

Split(s) == SplitFrom(s, 1, <<>>)

prep_text_nocap(s) == Split(StripNonWord(s))

word_count(s) == Len(prep_text_nocap(s))

(***************************************************************************)
(* emoji.emoji_count(s): the number of emoji of EMOJI_DATA in s, matched   *)
(* longest first from left to right.                                       *)
(***************************************************************************)
\* grinning face; red heart; red heart with its variation selector; keycap 1
EMOJI_DATA == { <<128512>>, <<10084>>, <<10084, 65039>>, <<49, 65039, 8419>> }

EmojiMatchLens(s, i) ==
    { Len(e) : e \in { x \in EMOJI_DATA :
                          /\ i + Len(x) - 1 <= Len(s)
                          /\ SubSeq(s, i, i + Len(x) - 1) = x } }

MaxOf(S) == CHOOSE m \in S : \A n \in S : n <= m

RECURSIVE EmojiCountFrom(_, _)
EmojiCountFrom(s, i) ==
    IF i > Len(s) THEN 0
    ELSE LET ls == EmojiMatchLens(s, i) IN
         IF ls = {} THEN EmojiCountFrom(s, i + 1)
         ELSE 1 + EmojiCountFrom(s, i + MaxOf(ls))

emoji_count(s) == EmojiCountFrom(s, 1)

(***************************************************************************)
(* The input: raw message records as the export's JSON objects.  A record  *)
(* is a function on the keys it carries; a key it lacks becomes NaN when   *)
(* pandas builds the DataFrame.                                            *)
(***************************************************************************)
Senders == {"Alice"}

\* 05:30 UTC (01:30 EDT), 06:00 UTC (01:00 EST), next day 06:00 UTC (01:00 EST)
Stamps == {11, 12, 60}

TextHiYo == <<104, 105, 32, 121, 111>>               \* "hi yo"

TextUrl == <<103, 111, 32, 104, 116, 116, 112>>      \* "go http"

TextMojibake == <<104, 105, 32, 240, 159, 152, 128>> \* "hi " + U+1F600 read as Latin-1

TextBad == <<233>>                                   \* e acute: a lone byte E9

Texts == {TextHiYo, TextUrl, TextMojibake, TextBad}

Durations == {0, 5}

EmptyFn == [x \in {} |-> x]

ContentParts == {EmptyFn} \cup { ("content" :> t) : t \in Texts }

CallParts == {EmptyFn} \cup { ("call_duration" :> d) : d \in Durations }

\* a media marker: any key outside the retained set
Photos == ("photos" :> 1)

Record(s, t, parts) == ("sender_name" :> s) @@ ("timestamp_ms" :> t) @@ parts

\* every combination of content and call duration
\* (text, call log with or without text, a record with neither)
CallContentRecords ==
    { Record(s, 11, c @@ d) : s \in Senders, c \in ContentParts, d \in CallParts }

\* the same text message at every instant
StampRecords == { Record(s, t, ("content" :> TextHiYo)) : s \in Senders, t \in Stamps }

\* media records: a photo with a caption, a photo alone, a photo in a call log
MediaRecords ==
    { Record(s, 12, p @@ Photos) :
        s \in Senders,
        p \in {("content" :> TextHiYo), EmptyFn, ("call_duration" :> 5)} }

RawRecords == CallContentRecords \cup StampRecords \cup MediaRecords

(***************************************************************************)
(* pandas: DataFrame, concat, exceptions.  A table is its set of columns   *)
(* and its rows in order; a row carries the position `id` its record has   *)
(* in the assembled raw table (not a column: it identifies the record).    *)
(***************************************************************************)
Df(cols, rows) == [exc |-> "", cols |-> cols, rows |-> rows]

Raise(e) == [exc |-> e, cols |-> {}, rows |-> <<>>]

Raised(df) == df.exc # ""

NoResult == [exc |-> "none", cols |-> {}, rows |-> <<>>]

Returned(df) == df.exc = ""

\* pd.DataFrame(messages): the columns are the union of the records' keys
FrameOf(recs) ==
    LET cols == UNION { DOMAIN recs[i] : i \in 1..Len(recs) } IN
    Df(cols,
       [i \in 1..Len(recs) |->
          [id |-> i,
           c  |-> [k \in cols |-> IF k \in DOMAIN recs[i] THEN <<recs[i][k]>> ELSE NaN]]])

WithCols(row, cols) ==
    [id |-> row.id,
     c  |-> [k \in cols |-> IF k \in DOMAIN row.c THEN row.c[k] ELSE NaN]]

Renumber(rows) == [i \in 1..Len(rows) |-> [id |-> i, c |-> rows[i].c]]

\* pd.concat(dfs): ValueError on an empty list; the union of the columns
Concat(dfs) ==
    IF dfs = <<>> THEN Raise("ValueError")
    ELSE LET cols == UNION { dfs[i].cols : i \in 1..Len(dfs) }
             rows == Flatten([i \in 1..Len(dfs) |->
                        [j \in 1..Len(dfs[i].rows) |-> WithCols(dfs[i].rows[j], cols)]])
         IN Df(cols, Renumber(rows))

\* the first exception raised in a loop over dfs, "" when none
FirstExc(dfs) ==
    IF \E i \in 1..Len(dfs) : Raised(dfs[i])
    THEN dfs[CHOOSE i \in 1..Len(dfs) :
                /\ Raised(dfs[i])
                /\ \A j \in 1..(i - 1) : ~Raised(dfs[j])].exc
    ELSE ""

(***************************************************************************)
(* Time zone: pd.to_datetime(unit='ms', utc=True) then                     *)
(* tz_convert('America/Toronto').  The instant is unchanged; .dt.date and  *)
(* .dt.time read the local wall clock.                                     *)
(***************************************************************************)
HalfHoursPerDay == 48

\* 2023-11-05 06:00 UTC: 02:00 EDT becomes 01:00 EST
DstEnd == 12

EDT == -8

EST == -10

UtcOffset(t) == IF t < DstEnd THEN EDT ELSE EST

LocalClock(t) == t + UtcOffset(t)

DateOf(t) == LocalClock(t) \div HalfHoursPerDay

TimeOf(t) == LocalClock(t) % HalfHoursPerDay

(***************************************************************************)
(* chat_db, all_messages, all_folder.                                      *)
(* A file is [title, messages]: messages is <<>> when the document has no  *)
(* "messages" key (data.get returns None) and <<list>> otherwise.          *)
(***************************************************************************)
MessagesOf(file) == IF IsNa(file.messages) THEN <<>> ELSE Val(file.messages)

\* single_folder.chat_db: the title becomes the index name
chat_db_single(file) ==
    LET chat_logs == FrameOf(MessagesOf(file)) IN
    IF "timestamp_ms" \notin chat_logs.cols THEN Raise("KeyError")
    ELSE chat_logs

\* all_folders.chat_db: the title becomes the column "Title"
chat_db_multi(file) ==
    LET frame == FrameOf(MessagesOf(file))
        cols  == frame.cols \cup {"Title"}
        chat_logs ==
            Df(cols, [i \in 1..Len(frame.rows) |->
                        [id |-> frame.rows[i].id,
                         c  |-> [k \in cols |-> IF k = "Title" THEN <<file.title>>
                                                ELSE frame.rows[i].c[k]]]])
    IN IF "timestamp_ms" \notin chat_logs.cols THEN Raise("KeyError")
       ELSE chat_logs

\* a file that fails to load is skipped instead of raising
MutAllMessagesSkipFailed(loaded) == Concat(SelectSeq(loaded, Returned))

\* glob('*.json') of one entry, every file loaded in turn, then pd.concat
AllMessagesOf(loaded) ==
    IF FirstExc(loaded) # "" THEN Raise(FirstExc(loaded))
    ELSE Concat(loaded)

all_messages_single(entry) ==
    AllMessagesOf([i \in 1..Len(entry.files) |-> chat_db_single(entry.files[i])])

all_messages_multi(entry) ==
    AllMessagesOf([i \in 1..Len(entry.files) |-> chat_db_multi(entry.files[i])])

IsDir(entry) == entry.kind = "dir"

\* os.listdir(root), the entries that are directories, each loaded in turn
all_folder(listing) ==
    LET dirs == SelectSeq(listing, IsDir)
        df_list == [i \in 1..Len(dirs) |-> all_messages_multi(dirs[i])]
    IN IF FirstExc(df_list) # "" THEN Raise(FirstExc(df_list))
       ELSE Concat(df_list)

(***************************************************************************)
(* The steps of clean_messages, each a DataFrame operation.                *)
(***************************************************************************)
SetCol(row, k, cell) ==
    [id |-> row.id,
     c  |-> [x \in (DOMAIN row.c) \cup {k} |-> IF x = k THEN cell ELSE row.c[x]]]

\* the filter with .any(axis=1) in place of .all(axis=1)
MutContentFilterAny(df, retain_columns) ==
    LET purge_columns == df.cols \ retain_columns
        AnyNa(row) == \E k \in purge_columns : IsNa(row.c[k])
    IN Df(df.cols, SelectSeq(df.rows, AnyNa))

\* purge_columns = the columns outside retain_columns;
\* df[df[purge_columns].isna().all(axis=1)]
ContentFilter(df, retain_columns) ==
    LET purge_columns == df.cols \ retain_columns
        AllNa(row) == \A k \in purge_columns : IsNa(row.c[k])
    IN Df(df.cols, SelectSeq(df.rows, AllNa))

\* df['Date'] = ...dt.date ; df['Time'] = ...dt.time
DeriveDateTime(df) ==
    Df(df.cols \cup {"Date", "Time"},
       [i \in 1..Len(df.rows) |->
          LET t == Val(df.rows[i].c["timestamp_ms"]) IN
          SetCol(SetCol(df.rows[i], "Date", <<DateOf(t)>>), "Time", <<TimeOf(t)>>)])

\* df.rename(columns=names): a name that is no column is ignored
Rename(df, names) ==
    LET New(k) == IF k \in DOMAIN names THEN names[k] ELSE k
        Old(n) == CHOOSE k \in df.cols : New(k) = n
        cols == { New(k) : k \in df.cols }
    IN Df(cols, [i \in 1..Len(df.rows) |->
                   [id |-> df.rows[i].id,
                    c  |-> [n \in cols |-> df.rows[i].c[Old(n)]]]])

Range(seq) == { seq[i] : i \in 1..Len(seq) }

\* df[column_order]: KeyError when a listed column does not exist
Project(df, column_order) ==
    IF ~(Range(column_order) \subseteq df.cols) THEN Raise("KeyError")
    ELSE Df(Range(column_order),
            [i \in 1..Len(df.rows) |->
               [id |-> df.rows[i].id,
                c  |-> [k \in Range(column_order) |-> df.rows[i].c[k]]]])

\* fillna('') in place of dropna: a missing message becomes an empty one
MutFillNaMessage(df) ==
    Df(df.cols,
       [i \in 1..Len(df.rows) |->
          IF IsNa(df.rows[i].c["Message"])
          THEN [id |-> df.rows[i].id,
                c  |-> [df.rows[i].c EXCEPT !["Message"] = << <<>> >>]]
          ELSE df.rows[i]])

\* df.dropna(subset=["Message"])
DropNaMessage(df) ==
    LET HasMessage(row) == ~IsNa(row.c["Message"])
    IN Df(df.cols, SelectSeq(df.rows, HasMessage))

\* the sort key of a row: the values of the columns of `by`, in order
KeyOf(row, by) == [i \in 1..Len(by) |-> Val(row.c[by[i]])]

RECURSIVE LexLess(_, _)
LexLess(a, b) ==
    IF a = <<>> THEN FALSE
    ELSE IF Head(a) < Head(b) THEN TRUE
    ELSE IF Head(a) > Head(b) THEN FALSE
    ELSE LexLess(Tail(a), Tail(b))

\* insert row after every row whose key is not greater
RECURSIVE InsertSorted(_, _, _)
InsertSorted(rows, row, by) ==
    IF rows = <<>> THEN <<row>>
    ELSE IF LexLess(KeyOf(row, by), KeyOf(Head(rows), by))
         THEN <<row>> \o rows
         ELSE <<Head(rows)>> \o InsertSorted(Tail(rows), row, by)

RECURSIVE SortRows(_, _)
SortRows(rows, by) ==
    IF rows = <<>> THEN <<>>
    ELSE InsertSorted(SortRows(SubSeq(rows, 1, Len(rows) - 1), by),
                      rows[Len(rows)], by)

\* the sort left out: the rows stay in load order
MutSortSkipped(df, by) == df

\* df.sort_values(by, ascending=True): rows of equal key keep their order
\* (numpy sorts fewer than 17 elements by insertion; the lexsort of several
\* keys is stable)
SortValues(df, by) == Df(df.cols, SortRows(df.rows, by))

\* df['Message'] = df['Message'].apply(unicode_emoji_converter): the first
\* message that cannot be converted raises out of apply
ApplyConverter(df) ==
    IF \E i \in 1..Len(df.rows) : IsNa(df.rows[i].c["Message"])
    THEN Raise("AttributeError")    \* a float NaN has no encode()
    ELSE IF \E i \in 1..Len(df.rows) :
          ~unicode_emoji_converter(Val(df.rows[i].c["Message"])).ok
    THEN Raise("UnicodeError")
    ELSE Df(df.cols,
            [i \in 1..Len(df.rows) |->
               SetCol(df.rows[i], "Message",
                      <<unicode_emoji_converter(Val(df.rows[i].c["Message"])).text>>)])

\* df["Word Count"] = df["Message"].map(word_count)
AddWordCount(df) ==
    Df(df.cols \cup {"Word Count"},
       [i \in 1..Len(df.rows) |->
          SetCol(df.rows[i], "Word Count",
                 <<word_count(Val(df.rows[i].c["Message"]))>>)])

CallCol == "Call Duration (Sec)"

\* "> 0" in place of "!= 0": NaN > 0 is False
MutDropNonPositiveCalls(df) ==
    LET Positive(row) == ~IsNa(row.c[CallCol]) /\ Val(row.c[CallCol]) > 0
    IN Df(df.cols, SelectSeq(df.rows, Positive))

\* df[df["Call Duration (Sec)"] != 0]: NaN != 0 is True
DropZeroCalls(df) ==
    LET NotZero(row) == IsNa(row.c[CallCol]) \/ Val(row.c[CallCol]) # 0
    IN Df(df.cols, SelectSeq(df.rows, NotZero))

\* mask = df["Call Duration (Sec)"] >= 0 (NaN >= 0 is False);
\* df.loc[mask, "Word Count"] = 0
ZeroCallWordCount(df) ==
    LET Mask(row) == ~IsNa(row.c[CallCol]) /\ Val(row.c[CallCol]) >= 0
    IN Df(df.cols,
          [i \in 1..Len(df.rows) |->
             IF Mask(df.rows[i]) THEN SetCol(df.rows[i], "Word Count", <<0>>)
             ELSE df.rows[i]])

Http == <<104, 116, 116, 112>>

\* the pattern 'https' in place of 'http'
MutZeroHttpsWordCount(df) ==
    Df(df.cols,
       [i \in 1..Len(df.rows) |->
          IF Contains(Val(df.rows[i].c["Message"]), Http \o <<115>>)
          THEN [id |-> df.rows[i].id,
                c  |-> [df.rows[i].c EXCEPT !["Word Count"] = <<0>>]]
          ELSE df.rows[i]])

\* mask_url = df['Message'].str.contains('http'); df.loc[mask_url, "Word Count"] = 0
ZeroUrlWordCount(df) ==
    Df(df.cols,
       [i \in 1..Len(df.rows) |->
          IF Contains(Val(df.rows[i].c["Message"]), Http)
          THEN SetCol(df.rows[i], "Word Count", <<0>>)
          ELSE df.rows[i]])

\* df['Emoji Count'] = df['Message'].apply(emoji.emoji_count)
AddEmojiCount(df) ==
    Df(df.cols \cup {"Emoji Count"},
       [i \in 1..Len(df.rows) |->
          SetCol(df.rows[i], "Emoji Count",
                 <<emoji_count(Val(df.rows[i].c["Message"]))>>)])

(***************************************************************************)
(* single_folder.clean_messages                                            *)
(***************************************************************************)
RetainSingle == {"sender_name", "timestamp_ms", "content", "call_duration"}

ColumnOrderSingle(cols) ==
    IF CallCol \in cols
    THEN <<"Sender", "timestamp_ms", "Date", "Time", "Message", CallCol>>
    ELSE <<"Sender", "timestamp_ms", "Date", "Time", "Message">>

\* lines 144-152: the call-duration block, which runs only when the column exists
CallBlockSingle(df) ==
    IF CallCol \in df.cols THEN ZeroCallWordCount(DropZeroCalls(df)) ELSE df

clean_messages_single(entry) ==
    LET raw == all_messages_single(entry) IN
    IF Raised(raw) THEN raw ELSE
    LET filtered == ContentFilter(raw, RetainSingle)
        renamed  == Rename(DeriveDateTime(filtered),
                           ("sender_name" :> "Sender") @@ ("content" :> "Message"))
        renamed2 == IF "call_duration" \in renamed.cols
                    THEN Rename(renamed, ("call_duration" :> CallCol))
                    ELSE renamed
        ordered  == Project(renamed2, ColumnOrderSingle(renamed2.cols))
    IN IF Raised(ordered) THEN ordered ELSE
    LET sorted   == SortValues(DropNaMessage(ordered), <<"timestamp_ms">>)
        repaired == ApplyConverter(sorted)
    IN IF Raised(repaired) THEN repaired ELSE
    AddEmojiCount(ZeroUrlWordCount(CallBlockSingle(AddWordCount(repaired))))

(***************************************************************************)
(* all_folders.clean_messages                                              *)
(***************************************************************************)
RetainMulti == {"sender_name", "timestamp_ms", "content", "call_duration", "Title"}

ColumnOrderMulti ==
    <<"Sender", "Title", "timestamp_ms", "Date", "Time", "Message", CallCol>>

clean_messages_multi(listing) ==
    LET raw == all_folder(listing) IN
    IF Raised(raw) THEN raw ELSE
    LET filtered == ContentFilter(raw, RetainMulti)
        renamed  == Rename(DeriveDateTime(filtered),
                           ("sender_name" :> "Sender") @@ ("content" :> "Message")
                           @@ ("call_duration" :> CallCol))
        ordered  == Project(renamed, ColumnOrderMulti)
    IN IF Raised(ordered) THEN ordered ELSE
    LET sorted   == SortValues(DropNaMessage(ordered), <<"Date", "Time">>)
        repaired == ApplyConverter(sorted)
    IN IF Raised(repaired) THEN repaired ELSE
    AddEmojiCount(ZeroUrlWordCount(ZeroCallWordCount(DropZeroCalls(
        AddWordCount(repaired)))))

(***************************************************************************)
(* The state machine.  In "select" the export directory is as the user     *)
(* left it (the entries, files and records are the environment's); a       *)
(* choice in call_folder runs chat_analysis, which cleans and then shows   *)
(* the analysis menu, or dies of the exception clean_messages raised.      *)
(***************************************************************************)
NewDir == [kind |-> "dir", files |-> <<>>]

StrayFile == [kind |-> "file", files |-> <<>>]

\* the document of a file: its "title" and, when has_list, an empty "messages"
NewFile(title, has_list) ==
    [title |-> title, messages |-> IF has_list THEN << <<>> >> ELSE <<>>]

RecordsIn(entry) ==
    SumSeq([i \in 1..Len(entry.files) |-> Len(MessagesOf(entry.files[i]))])

TotalRecords(listing) == SumSeq([i \in 1..Len(listing) |-> RecordsIn(listing[i])])

TotalFiles(listing) == SumSeq([i \in 1..Len(listing) |-> Len(listing[i].files)])

Nodes(listing) == Len(listing) + TotalFiles(listing) + TotalRecords(listing)

\* rename_folders is not running
NotRenaming ==
    /\ directory = {}
    /\ all_items = <<>>
    /\ item = 0
    /\ previous_name = <<>>

\* no aggregate computed yet
Nothing == [kind |-> "none", n |-> 0, out |-> NoResult]

Init ==
    /\ root = <<>>
    /\ pc = "select"
    /\ mode = "none"
    /\ chosen = 0
    /\ result = NoResult
    /\ shown = Nothing
    /\ NotRenaming

\* a conversation folder appears in the directory
MkDir ==
    /\ pc = "select"
    /\ Nodes(root) < MaxNodes
    /\ root' = Append(root, NewDir)
    /\ UNCHANGED <<pc, mode, chosen, result, shown, renaming>>

\* a file that is no folder appears in the directory
Touch ==
    /\ pc = "select"
    /\ Nodes(root) < MaxNodes
    /\ root' = Append(root, StrayFile)
    /\ UNCHANGED <<pc, mode, chosen, result, shown, renaming>>

\* a JSON file appears in the last folder, with or without a "messages" list
AddFile(has_list) ==
    /\ pc = "select"
    /\ root # <<>>
    /\ IsDir(root[Len(root)])
    /\ Nodes(root) < MaxNodes
    /\ root' = [root EXCEPT ![Len(root)].files =
                   Append(@, NewFile(Len(root), has_list))]
    /\ UNCHANGED <<pc, mode, chosen, result, shown, renaming>>

\* a record is appended to the "messages" list of the last file
AddRecord(r) ==
    /\ pc = "select"
    /\ root # <<>>
    /\ root[Len(root)].files # <<>>
    /\ LET e == Len(root)
           f == Len(root[e].files)
       IN /\ ~IsNa(root[e].files[f].messages)
          /\ TotalRecords(root) < MaxRecords
          /\ Nodes(root) < MaxNodes
          /\ root' = [root EXCEPT ![e].files[f].messages = <<Append(Val(@), r)>>]
    /\ UNCHANGED <<pc, mode, chosen, result, shown, renaming>>

Outcome(df) == IF Raised(df) THEN "crashed" ELSE "menu"

\* chat_analysis(path): df = single_folder.clean_messages(directory)
CleanSingle(i) ==
    /\ pc = "select"
    /\ result' = clean_messages_single(root[i])
    /\ pc' = Outcome(result')
    /\ mode' = "single"
    /\ chosen' = i
    /\ UNCHANGED <<root, shown, renaming>>

\* chat_analysis(root, entire=True): df = all_folders.clean_messages(directory)
CleanAll ==
    /\ pc = "select"
    /\ result' = clean_messages_multi(root)
    /\ pc' = Outcome(result')
    /\ mode' = "all"
    /\ chosen' = 0
    /\ UNCHANGED <<root, shown, renaming>>

\* menu choice 7, 'Choose Another Folder': chat_analysis returns and df is gone
ChooseAnother ==
    /\ pc = "menu"
    /\ pc' = "select"
    /\ mode' = "none"
    /\ chosen' = 0
    /\ result' = NoResult
    /\ shown' = Nothing
    /\ UNCHANGED <<root, renaming>>

Next ==
    \/ MkDir
    \/ Touch
    \/ \E has_list \in BOOLEAN : AddFile(has_list)
    \/ \E r \in RawRecords : AddRecord(r)
    \/ \E i \in 1..Len(root) : CleanSingle(i)
    \/ CleanAll
    \/ ChooseAnother

Spec == Init /\ [][Next]_vars

(***************************************************************************)
(* What the claims speak of: the records the run read, in load order.  A   *)
(* canonical row's id is the position of its record in that order.         *)
(***************************************************************************)
RecordsOfEntry(entry) ==
    Flatten([i \in 1..Len(entry.files) |-> MessagesOf(entry.files[i])])

Dirs == SelectSeq(root, IsDir)

SourceRecords ==
    IF mode = "single" THEN RecordsOfEntry(root[chosen])
    ELSE Flatten([i \in 1..Len(Dirs) |-> RecordsOfEntry(Dirs[i])])

Rows == result.rows

RowIds == { Rows[i].id : i \in 1..Len(Rows) }

RetainedFields == {"sender_name", "timestamp_ms", "content", "call_duration"}

HasOtherField(rec) == ~(DOMAIN rec \subseteq RetainedFields)

CallOf(rec) == IF "call_duration" \in DOMAIN rec THEN <<rec.call_duration>> ELSE NaN

\* a record that is plain text or a call log with text, not of zero duration
IsMessageRecord(rec) ==
    /\ ~HasOtherField(rec)
    /\ "content" \in DOMAIN rec
    /\ CallOf(rec) # <<0>>

RowCall(row) == IF CallCol \in DOMAIN row.c THEN row.c[CallCol] ELSE NaN

(***************************************************************************)
(* C1: every row of the canonical table has a non-null message, and comes  *)
(* from a record that carries content: a record without content (a call    *)
(* log of any duration) yields no canonical row, in either mode.           *)
(***************************************************************************)
C1_MessageNonNull ==
    pc = "menu" =>
        \A i \in 1..Len(Rows) :
            /\ ~IsNa(Rows[i].c["Message"])
            /\ "content" \in DOMAIN SourceRecords[Rows[i].id]

C1_Witness ==
    /\ pc = "menu"
    /\ Len(Rows) >= 1
    /\ \E k \in 1..Len(SourceRecords) :
          /\ DOMAIN SourceRecords[k] =
                 {"sender_name", "timestamp_ms", "call_duration"}
          /\ SourceRecords[k].call_duration = 5

(***************************************************************************)
(* C2: no canonical row comes from a record with a field outside the       *)
(* retained set; and a record whose fields are all retained is not removed *)
(* by the content filter: if it carries content and is no call of zero     *)
(* duration it has its canonical row.                                      *)
(***************************************************************************)
C2_NoMediaRows ==
    pc = "menu" =>
        /\ \A i \in 1..Len(Rows) : ~HasOtherField(SourceRecords[Rows[i].id])
        /\ \A k \in 1..Len(SourceRecords) :
              IsMessageRecord(SourceRecords[k]) => k \in RowIds

C2_Witness ==
    /\ pc = "menu"
    /\ \E k \in 1..Len(SourceRecords) :
          /\ HasOtherField(SourceRecords[k])
          /\ "content" \in DOMAIN SourceRecords[k]
    /\ \E k \in 1..Len(SourceRecords) : k \in RowIds

(***************************************************************************)
(* C3: in the canonical table a row with a call duration that is not null  *)
(* and >= 0 has word count 0, and a row whose repaired message contains    *)
(* "http" has word count 0, however many tokens the message has.           *)
(***************************************************************************)
C3_WordCountZeroed ==
    pc = "menu" =>
        \A i \in 1..Len(Rows) :
            /\ (~IsNa(RowCall(Rows[i])) /\ Val(RowCall(Rows[i])) >= 0
                    => Rows[i].c["Word Count"] = <<0>>)
            /\ (Contains(Val(Rows[i].c["Message"]), Http)
                    => Rows[i].c["Word Count"] = <<0>>)

C3_Witness ==
    /\ pc = "menu"
    /\ \E i \in 1..Len(Rows) :
          /\ Contains(Val(Rows[i].c["Message"]), Http)
          /\ word_count(Val(Rows[i].c["Message"])) = 2
          /\ IsNa(RowCall(Rows[i]))
    /\ \E i \in 1..Len(Rows) :
          /\ RowCall(Rows[i]) = <<5>>
          /\ word_count(Val(Rows[i].c["Message"])) > 0

(***************************************************************************)
(* C4: no canonical row has call duration 0; and the zero-duration drop    *)
(* removes nothing else: a record with content and retained fields only    *)
(* whose call duration is absent or not zero has its row, with that call   *)
(* duration.                                                               *)
(***************************************************************************)
C4_NoZeroDuration ==
    pc = "menu" =>
        /\ \A i \in 1..Len(Rows) : RowCall(Rows[i]) # <<0>>
        /\ \A k \in 1..Len(SourceRecords) :
              IsMessageRecord(SourceRecords[k]) =>
                  \E i \in 1..Len(Rows) :
                      /\ Rows[i].id = k
                      /\ RowCall(Rows[i]) = CallOf(SourceRecords[k])

C4_Witness ==
    /\ pc = "menu"
    /\ \E k \in 1..Len(SourceRecords) :
          /\ "content" \in DOMAIN SourceRecords[k]
          /\ CallOf(SourceRecords[k]) = <<0>>
          /\ ~HasOtherField(SourceRecords[k])
    /\ \E i \in 1..Len(Rows) : IsNa(RowCall(Rows[i])) /\ CallCol \in result.cols

(***************************************************************************)
(* C5 as stated: adjacent rows of the canonical table are in ascending     *)
(* order of (date, time), the local date and time of the timestamp, in     *)
(* either mode, also across a change of the local-time offset.             *)
(***************************************************************************)
DateTimeKey(row) == <<Val(row.c["Date"]), Val(row.c["Time"])>>

Stamp(row) == Val(row.c["timestamp_ms"])

C5_SortedByDateTime ==
    pc = "menu" =>
        \A i \in 1..(Len(Rows) - 1) :
            ~LexLess(DateTimeKey(Rows[i + 1]), DateTimeKey(Rows[i]))

(***************************************************************************)
(* C5 amended: in multi-conversation mode adjacent rows ascend by          *)
(* (date, time); in single-conversation mode adjacent rows ascend by the   *)
(* timestamp (the instant), which is ascending (date, time) whenever the   *)
(* two rows have the same UTC offset.                                      *)
(***************************************************************************)
C5_SortedAmended ==
    pc = "menu" =>
        \A i \in 1..(Len(Rows) - 1) :
            IF mode = "all"
            THEN ~LexLess(DateTimeKey(Rows[i + 1]), DateTimeKey(Rows[i]))
            ELSE /\ Stamp(Rows[i]) <= Stamp(Rows[i + 1])
                 /\ (UtcOffset(Stamp(Rows[i])) = UtcOffset(Stamp(Rows[i + 1]))
                        => ~LexLess(DateTimeKey(Rows[i + 1]), DateTimeKey(Rows[i])))

\* the sort moved a row: the records were loaded in the other order, and the
\* local clock was set back between them
C5_Witness ==
    /\ pc = "menu"
    /\ mode = "all"
    /\ Len(Rows) = 2
    /\ Rows[1].id > Rows[2].id
    /\ Stamp(Rows[1]) > Stamp(Rows[2])

(***************************************************************************)
(* C6: a message whose encoding repair fails never aborts clean_messages:  *)
(* the run does not end in the converter's exception.                      *)
(***************************************************************************)
C6_RepairFailureDoesNotAbort == result.exc # "UnicodeError"

(***************************************************************************)
(* C7: when no record read carries call_duration (and the records load,    *)
(* some record has content and every text can be repaired), cleaning       *)
(* returns a table without the call-duration column, in either mode.       *)
(***************************************************************************)
Repairable(rec) ==
    "content" \in DOMAIN rec => unicode_emoji_converter(rec.content).ok

LoadsCleanly ==
    /\ SourceRecords # <<>>
    /\ \A k \in 1..Len(SourceRecords) : Repairable(SourceRecords[k])
    /\ \E k \in 1..Len(SourceRecords) : "content" \in DOMAIN SourceRecords[k]
    /\ IF mode = "single"
       THEN Returned(all_messages_single(root[chosen]))
       ELSE Returned(all_folder(root))

C7_NoCallColumnWhenNoCalls ==
    (/\ pc \in {"menu", "crashed"}
     /\ LoadsCleanly
     /\ \A k \in 1..Len(SourceRecords) :
           "call_duration" \notin DOMAIN SourceRecords[k])
    => (Returned(result) /\ CallCol \notin result.cols)

(***************************************************************************)
(* C8: loading a conversation directory with no export file, or with a     *)
(* file that has no messages list, ends in an exception that reaches the   *)
(* caller: no table is returned that leaves the file out.                  *)
(***************************************************************************)
Unloadable(entry) ==
    \/ entry.files = <<>>
    \/ \E f \in 1..Len(entry.files) : IsNa(entry.files[f].messages)

LoadedEntries == IF mode = "single" THEN <<root[chosen]>> ELSE Dirs

C8_LoadErrorPropagates ==
    (/\ pc \in {"menu", "crashed"}
     /\ \E e \in 1..Len(LoadedEntries) : Unloadable(LoadedEntries[e]))
    => (pc = "crashed" /\ result.exc \in {"ValueError", "KeyError"})

C8_Witness ==
    /\ pc = "crashed"
    /\ mode = "all"
    /\ \E e \in 1..Len(Dirs) :
          /\ Len(Dirs[e].files) = 2
          /\ \E f \in 1..2 : IsNa(Dirs[e].files[f].messages)
          /\ \E f \in 1..2 : Len(MessagesOf(Dirs[e].files[f])) >= 1

(***************************************************************************)
(* C9: all_folder on a root without any conversation folder (empty, or     *)
(* stray files only) gives an empty table, and clean_messages returns an   *)
(* empty canonical table without raising.                                  *)
(***************************************************************************)
C9_EmptyRootGivesEmptyTable ==
    (pc \in {"menu", "crashed"} /\ mode = "all" /\ Dirs = <<>>)
    => (Returned(result) /\ Rows = <<>>)

(***************************************************************************)
(* C10: in all_folder a folder without export files contributes nothing    *)
(* and is no error: the outcome is that of the remaining folders.          *)
(***************************************************************************)
HasFiles(entry) == entry.files # <<>>

C10_EmptyFolderContributesNothing ==
    (/\ pc \in {"menu", "crashed"}
     /\ mode = "all"
     /\ \E e \in 1..Len(Dirs) : ~HasFiles(Dirs[e])
     /\ Returned(clean_messages_multi(SelectSeq(Dirs, HasFiles))))
    => result = clean_messages_multi(SelectSeq(Dirs, HasFiles))

(***************************************************************************)
(* chat_features: the text functions of the aggregators.                   *)
(***************************************************************************)
IsAsciiLetter(c) == (c >= 65 /\ c <= 90) \/ (c >= 97 /\ c <= 122)

Upper(c) == IF c >= 97 /\ c <= 122 THEN c - 32 ELSE c

Lower(c) == IF c >= 65 /\ c <= 90 THEN c + 32 ELSE c

\* the last index of the run of ASCII letters that holds index i
RECURSIVE RunEnd(_, _)
RunEnd(s, i) ==
    IF i + 1 <= Len(s) /\ IsAsciiLetter(s[i + 1]) THEN RunEnd(s, i + 1) ELSE i

\* the end of the match of [A-Za-z]+('[A-Za-z]+)? that starts at index i
MatchEnd(s, i) ==
    LET j == RunEnd(s, i) IN
    IF j + 2 <= Len(s) /\ s[j + 1] = Apostrophe /\ IsAsciiLetter(s[j + 2])
    THEN RunEnd(s, j + 2)
    ELSE j

\* re.sub(r"[A-Za-z]+('[A-Za-z]+)?", first upper + rest lower, s)
RECURSIVE CapitalizeFrom(_, _)
CapitalizeFrom(s, i) ==
    IF i > Len(s) THEN <<>>
    ELSE IF IsAsciiLetter(s[i])
         THEN LET k == MatchEnd(s, i) IN
              <<Upper(s[i])>> \o [x \in 1..(k - i) |-> Lower(s[i + x])]
                  \o CapitalizeFrom(s, k + 1)
         ELSE <<s[i]>> \o CapitalizeFrom(s, i + 1)

\* the substitution skipped: tokens keep the case they were typed in
MutCapitalizeSkipped(s) == s

Capitalize(s) == CapitalizeFrom(s, 1)

\* prep_text(s, cap=True)
prep_text(s) == Split(StripNonWord(Capitalize(s)))

\* string.punctuation
IsPunctuation(c) ==
    \/ c >= 33 /\ c <= 47
    \/ c >= 58 /\ c <= 64
    \/ c >= 91 /\ c <= 96
    \/ c >= 123 /\ c <= 126

NotPunctuation(c) == ~IsPunctuation(c)

words_without_punctuation(text) == SelectSeq(text, NotPunctuation)

\* the stop words as the source lists them, in lower case
stop_words == {
    <<105>>, <<109, 101>>, <<109, 121>>, <<109, 121, 115, 101, 108, 102>>,
    <<119, 101>>, <<111, 117, 114>>, <<111, 117, 114, 115>>,
    <<111, 117, 114, 115, 101, 108, 118, 101, 115>>, <<121, 111, 117>>,
    <<121, 111, 117, 114>>, <<121, 111, 117, 114, 115>>,
    <<121, 111, 117, 114, 115, 101, 108, 102>>,
    <<121, 111, 117, 114, 115, 101, 108, 118, 101, 115>>, <<104, 101>>,
    <<104, 105, 109>>, <<104, 105, 115>>,
    <<104, 105, 109, 115, 101, 108, 102>>, <<115, 104, 101>>,
    <<104, 101, 114>>, <<104, 101, 114, 115>>,
    <<104, 101, 114, 115, 101, 108, 102>>, <<105, 116>>, <<105, 116, 115>>,
    <<105, 116, 115, 101, 108, 102>>, <<116, 104, 101, 121>>,
    <<116, 104, 101, 109>>, <<116, 104, 101, 105, 114>>,
    <<116, 104, 101, 105, 114, 115>>,
    <<116, 104, 101, 109, 115, 101, 108, 118, 101, 115>>,
    <<119, 104, 97, 116>>, <<119, 104, 105, 99, 104>>, <<119, 104, 111>>,
    <<119, 104, 111, 109>>, <<116, 104, 105, 115>>, <<116, 104, 97, 116>>,
    <<116, 104, 101, 115, 101>>, <<116, 104, 111, 115, 101>>, <<97, 109>>,
    <<105, 115>>, <<97, 114, 101>>, <<119, 97, 115>>, <<119, 101, 114, 101>>,
    <<98, 101>>, <<98, 101, 101, 110>>, <<98, 101, 105, 110, 103>>,
    <<104, 97, 118, 101>>, <<104, 97, 115>>, <<104, 97, 100>>,
    <<104, 97, 118, 105, 110, 103>>, <<100, 111>>, <<100, 111, 101, 115>>,
    <<100, 105, 100>>, <<100, 111, 105, 110, 103>>, <<97>>, <<97, 110>>,
    <<116, 104, 101>>, <<97, 110, 100>>, <<98, 117, 116>>, <<105, 102>>,
    <<111, 114>>, <<98, 101, 99, 97, 117, 115, 101>>, <<97, 115>>,
    <<117, 110, 116, 105, 108>>, <<119, 104, 105, 108, 101>>, <<111, 102>>,
    <<97, 116>>, <<98, 121>>, <<102, 111, 114>>, <<119, 105, 116, 104>>,
    <<97, 98, 111, 117, 116>>, <<97, 103, 97, 105, 110, 115, 116>>,
    <<98, 101, 116, 119, 101, 101, 110>>, <<105, 110, 116, 111>>,
    <<116, 104, 114, 111, 117, 103, 104>>, <<100, 117, 114, 105, 110, 103>>,
    <<98, 101, 102, 111, 114, 101>>, <<97, 102, 116, 101, 114>>,
    <<97, 98, 111, 118, 101>>, <<98, 101, 108, 111, 119>>, <<116, 111>>,
    <<102, 114, 111, 109>>, <<117, 112>>, <<100, 111, 119, 110>>,
    <<105, 110>>, <<111, 117, 116>>, <<111, 110>>, <<111, 102, 102>>,
    <<111, 118, 101, 114>>, <<117, 110, 100, 101, 114>>,
    <<97, 103, 97, 105, 110>>, <<102, 117, 114, 116, 104, 101, 114>>,
    <<116, 104, 101, 110>>, <<111, 110, 99, 101>>, <<104, 101, 114, 101>>,
    <<116, 104, 101, 114, 101>>, <<119, 104, 101, 110>>,
    <<119, 104, 101, 114, 101>>, <<119, 104, 121>>, <<104, 111, 119>>,
    <<97, 108, 108>>, <<97, 110, 121>>, <<98, 111, 116, 104>>,
    <<101, 97, 99, 104>>, <<102, 101, 119>>, <<109, 111, 114, 101>>,
    <<109, 111, 115, 116>>, <<111, 116, 104, 101, 114>>,
    <<115, 111, 109, 101>>, <<115, 117, 99, 104>>, <<110, 111>>,
    <<110, 111, 114>>, <<110, 111, 116>>, <<111, 110, 108, 121>>,
    <<111, 119, 110>>, <<115, 97, 109, 101>>, <<115, 111>>,
    <<116, 104, 97, 110>>, <<116, 111, 111>>, <<118, 101, 114, 121>>,
    <<115>>, <<116>>, <<99, 97, 110>>, <<119, 105, 108, 108>>,
    <<106, 117, 115, 116>>, <<100, 111, 110>>,
    <<115, 104, 111, 117, 108, 100>>, <<110, 111, 119>>, <<100>>,
    <<108, 108>>, <<109>>, <<111>>, <<114, 101>>, <<118, 101>>, <<121>>,
    <<97, 105, 110>>, <<97, 114, 101, 110>>, <<99, 111, 117, 108, 100, 110>>,
    <<100, 105, 100, 110>>, <<100, 111, 101, 115, 110>>,
    <<104, 97, 100, 110>>, <<104, 97, 115, 110>>, <<104, 97, 118, 101, 110>>,
    <<105, 115, 110>>, <<109, 97>>, <<109, 105, 103, 104, 116, 110>>,
    <<109, 117, 115, 116, 110>>, <<110, 101, 101, 100, 110>>,
    <<115, 104, 97, 110>>, <<115, 104, 111, 117, 108, 100, 110>>,
    <<119, 97, 115, 110>>, <<119, 101, 114, 101, 110>>, <<119, 111, 110>>,
    <<119, 111, 117, 108, 100, 110>>, <<117, 114>>, <<117>>, <<114>>, <<99>>,
    <<107>>, <<98>>, <<110>>, <<112, 112, 108>>, <<98, 116, 119>>,
    <<99, 117, 122>>, <<98, 99>>, <<100, 109>>, <<107, 107>>,
    <<119, 97, 116>>, <<111, 107>>, <<121, 101, 97, 104>>, <<105, 109>>,
    <<108, 105, 107, 101>> }

\* word.title() of a word of lower-case letters
title(word) == <<Upper(Head(word))>> \o Tail(word)

TitledStopWords == { title(w) : w \in stop_words }

(***************************************************************************)
(* get_emoji_regexp and keep_only_emojis: an alternation of the emoji of   *)
(* EMOJI_DATA, longest first; findall scans from left to right and at each *)
(* position takes the first alternative that matches.                      *)
(***************************************************************************)
\* sorted(seq, key=len): stable, each element after those not longer
RECURSIVE SortedByLen(_)
SortedByLen(seq) ==
    IF seq = <<>> THEN <<>>
    ELSE LET body == SortedByLen(SubSeq(seq, 1, Len(seq) - 1))
             x    == seq[Len(seq)]
             NotLonger(e) == Len(e) <= Len(x)
             Longer(e)    == Len(e) > Len(x)
         IN SelectSeq(body, NotLonger) \o <<x>> \o SelectSeq(body, Longer)

Reverse(seq) == [i \in 1..Len(seq) |-> seq[Len(seq) + 1 - i]]

\* reverse=True forgotten: the shortest emoji come first
MutSortedAscending(seq) == SortedByLen(seq)

\* sorted(emoji.EMOJI_DATA, key=len, reverse=True)
SortedDescending(seq) == Reverse(SortedByLen(Reverse(seq)))

\* the keys of emoji.EMOJI_DATA in some order of the dictionary
RECURSIVE SeqOfSet(_)
SeqOfSet(S) ==
    IF S = {} THEN <<>>
    ELSE LET x == CHOOSE y \in S : TRUE IN <<x>> \o SeqOfSet(S \ {x})

get_emoji_regexp == SortedDescending(SeqOfSet(EMOJI_DATA))

MatchesAt(s, i, e) ==
    /\ i + Len(e) - 1 <= Len(s)
    /\ SubSeq(s, i, i + Len(e) - 1) = e

RECURSIVE FindAllFrom(_, _, _)
FindAllFrom(exp, s, i) ==
    IF i > Len(s) THEN <<>>
    ELSE IF \E a \in 1..Len(exp) : MatchesAt(s, i, exp[a])
         THEN LET a == CHOOSE b \in 1..Len(exp) :
                          /\ MatchesAt(s, i, exp[b])
                          /\ \A c \in 1..(b - 1) : ~MatchesAt(s, i, exp[c])
              IN <<exp[a]>> \o FindAllFrom(exp, s, i + Len(exp[a]))
         ELSE FindAllFrom(exp, s, i + 1)

keep_only_emojis(text) == FindAllFrom(get_emoji_regexp, text, 1)

(***************************************************************************)
(* chat_features: the aggregators over the canonical table.  An aggregate  *)
(* is a table whose rows are records of its columns.                       *)
(***************************************************************************)
\* the sender names in the order groupby("Sender") sorts them
SenderNames == <<"Alice", "Bob">>

\* Series.unique(): the values in order of first appearance
RECURSIVE Unique(_)
Unique(seq) ==
    IF seq = <<>> THEN <<>>
    ELSE LET body == Unique(SubSeq(seq, 1, Len(seq) - 1))
             x    == seq[Len(seq)]
         IN IF \E i \in 1..Len(body) : body[i] = x THEN body ELSE Append(body, x)

SenderOf(row) == Val(row.c["Sender"])

MessageOf(row) == Val(row.c["Message"])

\* the pattern 'https' in place of 'http'
MutWithoutHttps(df) ==
    LET Keep(row) == ~Contains(MessageOf(row), Http \o <<115>>)
    IN Df(df.cols, SelectSeq(df.rows, Keep))

\* df[~df['Message'].str.contains('http')]
WithoutUrls(df) ==
    LET Keep(row) == ~Contains(MessageOf(row), Http)
    IN Df(df.cols, SelectSeq(df.rows, Keep))

IsPositive(cell) == ~IsNa(cell) /\ Val(cell) > 0

\* df[~(df['Call Duration (Sec)'] > 0)]
WithoutCalls(df) ==
    LET Keep(row) == ~IsPositive(row.c[CallCol])
    IN Df(df.cols, SelectSeq(df.rows, Keep))

RowsOfSender(rows, s) ==
    LET Mine(row) == SenderOf(row) = s IN SelectSeq(rows, Mine)

\* the sum of a column over rows, NaN skipped
SumCol(rows, k) ==
    SumSeq([i \in 1..Len(rows) |-> IF IsNa(rows[i].c[k]) THEN 0 ELSE Val(rows[i].c[k])])

\* the keys of groupby("Sender"): the senders of rows, sorted
GroupKeys(rows) ==
    LET Present(s) == \E i \in 1..Len(rows) : SenderOf(rows[i]) = s
    IN SelectSeq(SenderNames, Present)

StatsLine(name, count, words, calls) ==
    [Sender |-> name, Message |-> count, WordCount |-> words, CallDuration |-> calls]

\* message_stats(df_m_s): a row per sender of rest_agg and the "Total" row.
\* The call sums are assigned by index, so they are aligned to rest_agg.
message_stats(df) ==
    LET urlfree  == WithoutUrls(df)
        has_call == CallCol \in df.cols
        call_sum(s) == SumCol(RowsOfSender(urlfree.rows, s), CallCol)
        rest     == IF has_call THEN WithoutCalls(urlfree) ELSE urlfree
        keys     == GroupKeys(rest.rows)
        rest_agg == [i \in 1..Len(keys) |->
                       LET mine == RowsOfSender(rest.rows, keys[i]) IN
                       StatsLine(keys[i], Len(mine), SumCol(mine, "Word Count"),
                                 IF has_call THEN <<call_sum(keys[i])>> ELSE NaN)]
        total_row == StatsLine("Total",
                        SumSeq([i \in 1..Len(rest_agg) |-> rest_agg[i].Message]),
                        SumSeq([i \in 1..Len(rest_agg) |-> rest_agg[i].WordCount]),
                        IF has_call
                        THEN <<SumSeq([i \in 1..Len(rest_agg) |->
                                          Val(rest_agg[i].CallDuration)])>>
                        ELSE NaN)
    IN Df({"Message", "Word Count"} \cup (IF has_call THEN {CallCol} ELSE {}),
          Append(rest_agg, total_row))

CountIn(seq, x) == Cardinality({ i \in 1..Len(seq) : seq[i] = x })

\* sort_values(by="Count", ascending=False): insert after every row whose
\* count is not smaller
RECURSIVE SortByCount(_)
SortByCount(rows) ==
    IF rows = <<>> THEN <<>>
    ELSE LET body == SortByCount(SubSeq(rows, 1, Len(rows) - 1))
             x    == rows[Len(rows)]
             Before(r) == Val(r.Count) >= Val(x.Count)
             After(r)  == Val(r.Count) < Val(x.Count)
         IN SelectSeq(body, Before) \o <<x>> \o SelectSeq(body, After)

\* pd.DataFrame(counters).reset_index(), pd.melt, dropna(subset=["Count"]),
\* sort_values: a row per sender and key of the sender's counter.
\* tokens[i] are the counted items of senders[i]; label names the key column.
MeltCounters(senders, tokens, label) ==
    LET index  == Unique(Flatten(tokens))
        melted == Flatten([i \in 1..Len(senders) |->
                     [j \in 1..Len(index) |->
                        (label :> index[j]) @@
                        [Sender |-> senders[i],
                         Count  |-> IF CountIn(tokens[i], index[j]) > 0
                                    THEN <<CountIn(tokens[i], index[j])>>
                                    ELSE NaN]]])
        Counted(r) == ~IsNa(r.Count)
    IN Df({label, "Sender", "Count"}, SortByCount(SelectSeq(melted, Counted)))

NotStopWord(token) == token \notin TitledStopWords

\* top_words(df_t_w): the call duration column is read without a test
top_words(df) ==
    IF CallCol \notin df.cols THEN Raise("KeyError")
    ELSE LET kept    == WithoutCalls(WithoutUrls(df)).rows
             senders == Unique([i \in 1..Len(kept) |-> SenderOf(kept[i])])
             Words(row) == prep_text(words_without_punctuation(MessageOf(row)))
             counted(s) == LET mine == RowsOfSender(kept, s) IN
                           SelectSeq(Flatten([i \in 1..Len(mine) |-> Words(mine[i])]),
                                     NotStopWord)
         IN MeltCounters(senders, [i \in 1..Len(senders) |-> counted(senders[i])],
                         "Word")

\* top_emojis(df_t_e)
top_emojis(df) ==
    LET HasEmoji(row) == IsPositive(row.c["Emoji Count"])
        kept    == SelectSeq(df.rows, HasEmoji)
        senders == Unique([i \in 1..Len(kept) |-> SenderOf(kept[i])])
        counted(s) == LET mine == RowsOfSender(kept, s) IN
                      Flatten([i \in 1..Len(mine) |-> keep_only_emojis(MessageOf(mine[i]))])
    IN MeltCounters(senders, [i \in 1..Len(senders) |-> counted(senders[i])],
                    "Emoji")

\* the slices concatenated and left in the order of the senders
MutResortSkipped(rows) == rows

\* .sort_values(by="Count", ascending=False) of the concatenated slices
Resort(rows) == SortByCount(rows)

\* df_top[df_top['Sender'] == name].iloc[:top_num]
TopSlice(rows, name, top_num) ==
    LET Mine(r) == r.Sender = name
        subset  == SelectSeq(rows, Mine)
    IN SubSeq(subset, 1, IF Len(subset) < top_num THEN Len(subset) ELSE top_num)

\* plot_top(df_top, top_type, top_num): pd.concat of no slice raises
plot_top(df, top_type, top_num) ==
    LET df_top == IF top_type = "words" THEN top_words(df) ELSE top_emojis(df) IN
    IF Raised(df_top) THEN df_top
    ELSE LET names  == Unique([i \in 1..Len(df_top.rows) |-> df_top.rows[i].Sender])
             holder == [i \in 1..Len(names) |-> TopSlice(df_top.rows, names[i], top_num)]
         IN IF holder = <<>> THEN Raise("ValueError")
            ELSE Df(df_top.cols, Resort(Flatten(holder)))

\* plot_message_distribution(df): the messages counted per sender
plot_message_distribution(df) ==
    IF CallCol \notin df.cols THEN Raise("KeyError")
    ELSE LET kept == WithoutCalls(df).rows
             keys == GroupKeys(kept)
         IN Df({"Message"},
               [i \in 1..Len(keys) |->
                  [Sender |-> keys[i], Message |-> Len(RowsOfSender(kept, keys[i]))]])

desired_order ==
    <<"Monday", "Tuesday", "Wednesday", "Thursday", "Friday", "Saturday", "Sunday">>

\* strftime('%A') of a date: day 0 of the model, 2023-11-05, is a Sunday
DayName(date) == desired_order[((date + 6) % 7) + 1]

\* strftime('%H') of a time of the day in half hours
HourOf(time) == time \div 2

\* total_message_frequency(df): the matrix the heat map is drawn from.
\* pivot_table(fill_value=0) has a row per day and a column per hour that
\* occur; reindex(desired_order) adds the other days as rows of NaN.
total_message_frequency(df) ==
    IF CallCol \notin df.cols THEN Raise("KeyError")
    ELSE LET kept  == WithoutCalls(df).rows
             Day(row)  == DayName(Val(row.c["Date"]))
             Hour(row) == HourOf(Val(row.c["Time"]))
             hours == { Hour(kept[i]) : i \in 1..Len(kept) }
             days  == { Day(kept[i]) : i \in 1..Len(kept) }
             Count(d, h) == Cardinality({ i \in 1..Len(kept) :
                                             Day(kept[i]) = d /\ Hour(kept[i]) = h })
         IN Df(hours,
               [i \in 1..Len(desired_order) |->
                  [Day |-> desired_order[i],
                   c   |-> [h \in hours |->
                              IF desired_order[i] \in days
                              THEN <<Count(desired_order[i], h)>>
                              ELSE NaN]]])

(***************************************************************************)
(* The frame an aggregator is called with.  Every aggregator first binds   *)
(* its parameter to a filtered copy, df = df[mask].copy(), and assigns its *)
(* columns on that copy.  A working frame is the table with `own`: whether *)
(* it is an object of the aggregator (TRUE) or the caller's frame (FALSE). *)
(***************************************************************************)
\* the rows dropped in place: the name still denotes the caller's frame
MutInPlace(df) == [df |-> df, own |-> FALSE]

\* df[mask].copy()
Copy(df) == [df |-> df, own |-> TRUE]

\* w[k] = values, one value for each row of w
AssignCol(w, k, values) ==
    [df  |-> Df(w.df.cols \cup {k},
                [i \in 1..Len(w.df.rows) |-> SetCol(w.df.rows[i], k, <<values[i]>>)]),
     own |-> w.own]

\* the messages of w, row by row: w['Message']
MessagesOfFrame(w) == [i \in 1..Len(w.df.rows) |-> MessageOf(w.df.rows[i])]

\* the caller's frame when the aggregator is left
CallerFrame(df, w) == IF w.own THEN df ELSE w.df

\* ' '.join(words)
RECURSIVE Join(_)
Join(words) ==
    IF words = <<>> THEN <<>>
    ELSE IF Len(words) = 1 THEN Head(words)
    ELSE Head(words) \o <<32>> \o Join(Tail(words))

JoinedWords(s) == Join(prep_text_nocap(s))

\* the caller's frame after message_stats(df)
message_stats_frame(df) ==
    LET w == Copy(WithoutUrls(df))
        messages == MessagesOfFrame(w)
    IN CallerFrame(df, AssignCol(w, "Message",
                                 [i \in DOMAIN messages |-> JoinedWords(messages[i])]))

TitledWords(s) == prep_text(words_without_punctuation(s))

\* the caller's frame after top_words(df): the KeyError leaves after the
\* first filter
top_words_frame(df) ==
    LET urlfree == Copy(WithoutUrls(df)) IN
    IF CallCol \notin df.cols THEN CallerFrame(df, urlfree)
    ELSE LET w == Copy(WithoutCalls(urlfree.df))
             messages == MessagesOfFrame(w)
         IN CallerFrame(df, AssignCol(w, "Message",
                                      [i \in DOMAIN messages |-> TitledWords(messages[i])]))

\* the caller's frame after top_emojis(df)
top_emojis_frame(df) ==
    LET HasEmoji(row) == IsPositive(row.c["Emoji Count"])
        w == Copy(Df(df.cols, SelectSeq(df.rows, HasEmoji)))
        messages == MessagesOfFrame(w)
    IN CallerFrame(df, AssignCol(w, "Message",
                                 [i \in DOMAIN messages |-> keep_only_emojis(messages[i])]))

\* the caller's frame after plot_top(df, top_type, top_num)
plot_top_frame(df, top_type) ==
    IF top_type = "words" THEN top_words_frame(df) ELSE top_emojis_frame(df)

\* the caller's frame after plot_message_distribution(df)
plot_message_distribution_frame(df) ==
    IF CallCol \notin df.cols THEN df
    ELSE CallerFrame(df, Copy(WithoutCalls(df)))

NoText(s) == <<>>

\* the caller's frame after total_message_frequency(df): the copy gains
\* the columns Day and Hour
total_message_frequency_frame(df) ==
    IF CallCol \notin df.cols THEN df
    ELSE LET w == Copy(WithoutCalls(df))
             messages == MessagesOfFrame(w)
             values == [i \in DOMAIN messages |-> NoText(messages[i])]
         IN CallerFrame(df, AssignCol(AssignCol(w, "Day", values), "Hour", values))

(***************************************************************************)
(* The menu of chat_analysis over one conversation of two senders: the     *)
(* folder holds one file, cleaned in either mode, and each choice of the   *)
(* menu applies its aggregator to the canonical table.                     *)
(***************************************************************************)
TextAYoYoYoHi ==                                     \* "a yo yo yo hi"
    <<97, 32, 121, 111, 32, 121, 111, 32, 121, 111, 32, 104, 105>>

TextHiHi == <<104, 105, 32, 104, 105>>               \* "hi hi"

\* "i" U+1F600 "m", the emoji read as Latin-1
TextEmojiInWord == <<105, 240, 159, 152, 128, 109>>

\* U+2764 U+FE0F (red heart) and "1" U+FE0F U+20E3 (keycap 1), read as Latin-1
TextHeartKeycap == <<226, 157, 164, 239, 184, 143, 49, 239, 184, 143, 226, 131, 163>>

\* the text messages of the conversation: Sunday 01:30 and Monday 02:00
TextRecords ==
    { Record("Alice", 11, ("content" :> TextAYoYoYoHi)),
      Record("Alice", 62, ("content" :> TextEmojiInWord)),
      Record("Alice", 11, ("content" :> TextHeartKeycap)),
      Record("Alice", 11, ("content" :> TextUrl)),
      Record("Bob", 62, ("content" :> TextHiHi)),
      Record("Bob", 11, ("content" :> TextHeartKeycap)) }

\* the call logs of the conversation: none, or one call that lasted or failed
CallLogs ==
    { <<>>,
      << Record("Alice", 62, ("content" :> TextHiHi) @@ ("call_duration" :> 5)) >>,
      << Record("Bob", 62, ("content" :> TextHiHi) @@ ("call_duration" :> 5)) >>,
      << Record("Alice", 11, ("content" :> TextHiHi) @@ ("call_duration" :> 0)) >> }

\* the sequences over S of length at most n
RECURSIVE SeqsUpTo(_, _)
SeqsUpTo(S, n) ==
    IF n = 0 THEN { <<>> }
    ELSE LET shorter == SeqsUpTo(S, n - 1)
         IN shorter \cup { Append(q, x) : q \in { r \in shorter : Len(r) = n - 1 }, x \in S }

\* plot_top's top_num: 10 is its default, the one the menu uses
TopNums == {1, 2, 10}

InitMenu ==
    /\ \E calls \in CallLogs, texts \in SeqsUpTo(TextRecords, MaxTexts) :
          root = << [kind |-> "dir",
                     files |-> << [title |-> 1, messages |-> <<calls \o texts>>] >>] >>
    /\ pc = "select"
    /\ mode = "none"
    /\ chosen = 0
    /\ result = NoResult
    /\ shown = Nothing
    /\ NotRenaming

\* the loop of chat_analysis catches ValueError and shows the menu again;
\* any other exception leaves the program
AfterChoice(out) == IF Raised(out) /\ out.exc # "ValueError" THEN "crashed" ELSE "menu"

\* a choice of the menu: out is what the aggregator returns or raises,
\* frame is df as the call leaves it
Show(kind, n, out, frame) ==
    /\ pc = "menu"
    /\ shown' = [kind |-> kind, n |-> n, out |-> out]
    /\ result' = frame
    /\ pc' = AfterChoice(out)
    /\ UNCHANGED <<root, mode, chosen, renaming>>

\* choice 1: print(chat_features.message_stats(df))
GeneralMessageStats == Show("message_stats", 0, message_stats(result), message_stats_frame(result))

\* choice 2: chat_features.plot_top(df, top_type='words')
TopWordsUsed(n) == Show("words", n, plot_top(result, "words", n), plot_top_frame(result, "words"))

\* choice 3: chat_features.plot_top(df, top_type='emojis')
TopEmojisUsed(n) == Show("emojis", n, plot_top(result, "emojis", n), plot_top_frame(result, "emojis"))

\* choice 4: chat_features.plot_message_distribution(df)
TotalMessageDistribution ==
    Show("plot_message_distribution", 0, plot_message_distribution(result),
         plot_message_distribution_frame(result))

\* choice 5: chat_features.total_message_frequency(df)
TotalMessageFrequency ==
    Show("total_message_frequency", 0, total_message_frequency(result),
         total_message_frequency_frame(result))

\* chat_features.top_words(df) called by itself
CallTopWords == Show("top_words", 0, top_words(result), top_words_frame(result))

\* chat_features.top_emojis(df) called by itself
CallTopEmojis == Show("top_emojis", 0, top_emojis(result), top_emojis_frame(result))

NextMenu ==
    \/ CleanSingle(1)
    \/ CleanAll
    \/ GeneralMessageStats
    \/ \E n \in TopNums : TopWordsUsed(n)
    \/ \E n \in TopNums : TopEmojisUsed(n)
    \/ TotalMessageDistribution
    \/ TotalMessageFrequency
    \/ CallTopWords
    \/ CallTopEmojis
    \/ ChooseAnother

SpecMenu == InitMenu /\ [][NextMenu]_vars

(***************************************************************************)
(* What the claims on the aggregators speak of: the aggregate last shown   *)
(* and the canonical table it was computed from.                           *)
(***************************************************************************)
Shown(kind) == shown.kind = kind

Lines == shown.out.rows

\* the canonical rows message_stats counts: no URL, no call of positive duration
CountedRows ==
    { i \in 1..Len(Rows) :
         /\ ~Contains(MessageOf(Rows[i]), Http)
         /\ ~(CallCol \in result.cols /\ IsPositive(Rows[i].c[CallCol])) }

UrlFreeRows == { i \in 1..Len(Rows) : ~Contains(MessageOf(Rows[i]), Http) }

RECURSIVE SumOver(_, _)
SumOver(S, f) ==
    IF S = {} THEN 0
    ELSE LET x == CHOOSE y \in S : TRUE IN f[x] + SumOver(S \ {x}, f)

CallSeconds == [i \in 1..Len(Rows) |->
                  IF IsNa(Rows[i].c[CallCol]) THEN 0 ELSE Val(Rows[i].c[CallCol])]

(***************************************************************************)
(* C11: on a canonical table of zero rows message_stats, top_words,        *)
(* top_emojis and plot_top each return an empty table (message_stats at    *)
(* most its Total row) and none of them raises.                            *)
(***************************************************************************)
C11_EmptyTableGivesEmptyAggregates ==
    (/\ Returned(result)
     /\ Rows = <<>>
     /\ shown.kind \in {"message_stats", "top_words", "top_emojis", "words", "emojis"})
    => /\ Returned(shown.out)
       /\ \A i \in 1..Len(Lines) : Shown("message_stats") /\ Lines[i].Sender = "Total"

(***************************************************************************)
(* C12: the message count of the Total row of message_stats is the number  *)
(* of canonical rows whose message holds no "http" and whose call duration *)
(* is not positive, and it is the sum of the senders' message counts.      *)
(***************************************************************************)
C12_TotalMessageCount ==
    Shown("message_stats")
    => /\ Returned(shown.out)
       /\ Lines # <<>>
       /\ Lines[Len(Lines)].Sender = "Total"
       /\ Lines[Len(Lines)].Message = Cardinality(CountedRows)
       /\ Lines[Len(Lines)].Message =
              SumSeq([i \in 1..(Len(Lines) - 1) |-> Lines[i].Message])

\* a table with a URL, a call and a counted message of another sender
C12_Witness ==
    /\ Shown("message_stats")
    /\ Len(Rows) >= 2
    /\ Cardinality(CountedRows) = 1
    /\ Len(Lines) = 2
    /\ \E i \in 1..Len(Rows) : Contains(MessageOf(Rows[i]), Http)

(***************************************************************************)
(* C13: for a canonical table with the call duration column message_stats  *)
(* reports for each sender the sum of the call durations of the sender's   *)
(* rows (URL rows excluded), and the Total row holds the sum over all the  *)
(* senders, whichever kinds of rows each sender has.                       *)
(***************************************************************************)
C13_CallDurationSums ==
    (Shown("message_stats") /\ CallCol \in result.cols)
    => /\ \A u \in UrlFreeRows :
            \E i \in 1..(Len(Lines) - 1) :
               /\ Lines[i].Sender = SenderOf(Rows[u])
               /\ Lines[i].CallDuration =
                     <<SumOver({ v \in UrlFreeRows : SenderOf(Rows[v]) = SenderOf(Rows[u]) },
                               CallSeconds)>>
       /\ Lines[Len(Lines)].CallDuration = <<SumOver(UrlFreeRows, CallSeconds)>>

(***************************************************************************)
(* C14: no row returned by top_words carries a token whose lower-cased     *)
(* form is a stop word.                                                    *)
(***************************************************************************)
LowerCased(token) == [i \in 1..Len(token) |-> Lower(token[i])]

C14_NoStopWordTokens ==
    (Shown("top_words") /\ Returned(shown.out))
    => \A i \in 1..Len(Lines) : LowerCased(Lines[i].Word) \notin stop_words

(***************************************************************************)
(* C15: for every canonical table and every n >= 1, plot_top(words, n)     *)
(* returns for each sender min(n, number of the sender's distinct non-stop *)
(* tokens) rows, and no token left out has a greater count than a token    *)
(* returned for that sender.                                               *)
(***************************************************************************)
SendersOfTable == { SenderOf(Rows[i]) : i \in 1..Len(Rows) }

\* the tokens of a sender's counted messages, stop words left out
TokensOf(s) ==
    LET mine == SelectSeq([i \in 1..Len(Rows) |-> IF i \in CountedRows /\ SenderOf(Rows[i]) = s
                                                  THEN prep_text(words_without_punctuation(
                                                           MessageOf(Rows[i])))
                                                  ELSE <<>>],
                          LAMBDA ws : ws # <<>>)
    IN SelectSeq(Flatten(mine), NotStopWord)

DistinctTokens(s) == { TokensOf(s)[i] : i \in 1..Len(TokensOf(s)) }

LinesOf(s) == SelectSeq(Lines, LAMBDA r : r.Sender = s)

Min(a, b) == IF a < b THEN a ELSE b

TopNOfSender(s) ==
    LET returned == { LinesOf(s)[i].Word : i \in 1..Len(LinesOf(s)) } IN
    /\ Len(LinesOf(s)) = Min(shown.n, Cardinality(DistinctTokens(s)))
    /\ Cardinality(returned) = Len(LinesOf(s))
    /\ returned \subseteq DistinctTokens(s)
    /\ \A i \in 1..Len(LinesOf(s)) :
          /\ LinesOf(s)[i].Count = <<CountIn(TokensOf(s), LinesOf(s)[i].Word)>>
          /\ \A t \in DistinctTokens(s) \ returned :
                CountIn(TokensOf(s), t) <= Val(LinesOf(s)[i].Count)

C15_TopNPerSender ==
    Shown("words")
    => /\ Returned(shown.out)
       /\ \A s \in SendersOfTable : TopNOfSender(s)

(***************************************************************************)
(* C16: the table plot_top returns is in descending order of count over    *)
(* the rows of all senders together, and its rows are those of the         *)
(* senders' slices, each as often as the slices hold it.                   *)
(***************************************************************************)
\* the table plot_top slices: top_words or top_emojis of the canonical table
Ranked == IF Shown("words") THEN top_words(result) ELSE top_emojis(result)

Slices ==
    LET names == Unique([i \in 1..Len(Ranked.rows) |-> Ranked.rows[i].Sender])
    IN Flatten([i \in 1..Len(names) |-> TopSlice(Ranked.rows, names[i], shown.n)])

C16_CombinedSortedByCount ==
    (shown.kind \in {"words", "emojis"} /\ Returned(shown.out))
    => LET lines  == Lines
           slices == Slices
       IN /\ \A i \in 1..(Len(lines) - 1) :
                Val(lines[i].Count) >= Val(lines[i + 1].Count)
          /\ Len(lines) = Len(slices)
          /\ \A i \in 1..Len(slices) :
                CountIn(lines, slices[i]) = CountIn(slices, slices[i])

\* the rows of one sender lie on both sides of a row of the other
C16_Witness ==
    /\ Shown("words")
    /\ Returned(shown.out)
    /\ Len(Lines) = 3
    /\ Lines[1].Sender = Lines[3].Sender
    /\ Lines[2].Sender # Lines[1].Sender
    /\ Val(Lines[1].Count) > Val(Lines[2].Count)
    /\ Val(Lines[2].Count) > Val(Lines[3].Count)

(***************************************************************************)
(* C17: the matrix of total_message_frequency has its rows in the order    *)
(* Monday to Sunday, counts only the rows whose call duration is not       *)
(* positive, and holds 0 in every (day, hour) bucket without a message,    *)
(* the buckets of a weekday without any message included.                  *)
(***************************************************************************)
BucketCount(day, hour) ==
    Cardinality({ i \in 1..Len(Rows) :
                     /\ ~IsPositive(Rows[i].c[CallCol])
                     /\ DayName(Val(Rows[i].c["Date"])) = day
                     /\ HourOf(Val(Rows[i].c["Time"])) = hour })

C17_FrequencyMatrix ==
    (Shown("total_message_frequency") /\ Returned(shown.out))
    => /\ [i \in 1..Len(Lines) |-> Lines[i].Day] = desired_order
       /\ \A i \in 1..Len(Lines) : \A h \in shown.out.cols :
             Lines[i].c[h] = <<BucketCount(Lines[i].Day, h)>>

(***************************************************************************)
(* C18: keep_only_emojis scans from left to right and emits at each        *)
(* position the longest emoji of EMOJI_DATA that starts there, so that an  *)
(* emoji of several code points is never split; the tokens come in the     *)
(* order of the text and the other characters give no token.               *)
(***************************************************************************)
\* the longest emoji at each position, from left to right
RECURSIVE LongestFrom(_, _)
LongestFrom(s, i) ==
    IF i > Len(s) THEN <<>>
    ELSE LET ls == EmojiMatchLens(s, i) IN
         IF ls = {} THEN LongestFrom(s, i + 1)
         ELSE <<SubSeq(s, i, i + MaxOf(ls) - 1)>> \o LongestFrom(s, i + MaxOf(ls))

\* the emoji of a sender's messages as top_emojis counts them
EmojisOf(s) ==
    Flatten([i \in 1..Len(Rows) |->
               IF SenderOf(Rows[i]) = s /\ IsPositive(Rows[i].c["Emoji Count"])
               THEN LongestFrom(MessageOf(Rows[i]), 1)
               ELSE <<>>])

C18_LongestEmojiFirst ==
    (Shown("top_emojis") /\ Returned(shown.out))
    => /\ \A i \in 1..Len(Rows) :
             keep_only_emojis(MessageOf(Rows[i])) = LongestFrom(MessageOf(Rows[i]), 1)
       /\ \A i \in 1..Len(Lines) :
             Lines[i].Count = <<CountIn(EmojisOf(Lines[i].Sender), Lines[i].Emoji)>>
       /\ \A s \in SendersOfTable : \A j \in 1..Len(EmojisOf(s)) :
             \E i \in 1..Len(Lines) :
                Lines[i].Sender = s /\ Lines[i].Emoji = EmojisOf(s)[j]

\* the red heart with its variation selector is shown whole, and the emoji
\* inside a word is shown without the letters around it
C18_Witness ==
    /\ Shown("top_emojis")
    /\ Returned(shown.out)
    /\ \E i \in 1..Len(Lines) : Lines[i].Emoji = <<10084, 65039>>
    /\ \E i \in 1..Len(Lines) : Lines[i].Emoji = <<128512>>
    /\ \A i \in 1..Len(Lines) : Lines[i].Emoji # <<10084>>
    /\ \E i \in 1..Len(Rows) : MessageOf(Rows[i]) = <<105, 128512, 109>>

(***************************************************************************)
(* C19: the word count of a message that consists of emoji and punctuation *)
(* only is 0, whatever code points its emoji are made of.                  *)
(***************************************************************************)
RECURSIVE OnlyEmojiOrPunctuationFrom(_, _)
OnlyEmojiOrPunctuationFrom(s, i) ==
    IF i > Len(s) THEN TRUE
    ELSE LET ls == EmojiMatchLens(s, i) IN
         IF ls # {} THEN OnlyEmojiOrPunctuationFrom(s, i + MaxOf(ls))
         ELSE IsPunctuation(s[i]) /\ OnlyEmojiOrPunctuationFrom(s, i + 1)

C19_EmojiOnlyWordCountZero ==
    (pc = "menu" /\ Returned(result))
    => \A i \in 1..Len(Rows) :
          OnlyEmojiOrPunctuationFrom(MessageOf(Rows[i]), 1)
          => /\ word_count(MessageOf(Rows[i])) = 0
             /\ Rows[i].c["Word Count"] = <<0>>

(***************************************************************************)
(* C20: the canonical table does not depend on the order in which the      *)
(* files and folders are loaded: for every permutation of the load order   *)
(* clean_messages returns the same rows in the same order, also when       *)
(* records of different files have the same sort key.                      *)
(***************************************************************************)
Permuted(seq) ==
    { [i \in 1..Len(seq) |-> seq[p[i]]] : p \in Permutations(1..Len(seq)) }

\* the folder with its files loaded in another order
FilesPermuted(entry) ==
    { [entry EXCEPT !.files = fs] : fs \in Permuted(entry.files) }

\* the listing with its entries, and the files of each entry, in another order
RECURSIVE EachPermuted(_)
EachPermuted(listing) ==
    IF listing = <<>> THEN { <<>> }
    ELSE { <<e>> \o rest : e \in FilesPermuted(Head(listing)),
                           rest \in EachPermuted(Tail(listing)) }

ListingsPermuted(listing) == UNION { EachPermuted(l) : l \in Permuted(listing) }

CellsOf(df) == [i \in 1..Len(df.rows) |-> df.rows[i].c]

SameTable(df, other) ==
    /\ Returned(other)
    /\ other.cols = df.cols
    /\ CellsOf(other) = CellsOf(df)

C20_LoadOrderIndependent ==
    (pc = "menu" /\ Returned(result))
    => IF mode = "single"
       THEN \A entry \in FilesPermuted(root[chosen]) :
               SameTable(result, clean_messages_single(entry))
       ELSE \A listing \in ListingsPermuted(Dirs) :
               SameTable(result, clean_messages_multi(listing))

(***************************************************************************)
(* C22: no aggregator changes the canonical table: after any sequence of   *)
(* calls of message_stats, top_words, top_emojis, plot_top,                *)
(* plot_message_distribution and total_message_frequency the table the     *)
(* session holds (rows, message text, columns, index) is the table the     *)
(* cleaning returned.                                                      *)
(***************************************************************************)
Cleaned ==
    IF mode = "single" THEN clean_messages_single(root[chosen])
    ELSE clean_messages_multi(root)

C22_AggregatorsLeaveTable == (shown.kind # "none") => result = Cleaned

\* message_stats has dropped a URL row and rewritten a message on its copy
C22_Witness ==
    /\ Shown("message_stats")
    /\ Returned(shown.out)
    /\ \E i \in 1..Len(Rows) : Contains(MessageOf(Rows[i]), Http)
    /\ \E i \in 1..Len(Rows) : JoinedWords(MessageOf(Rows[i])) # MessageOf(Rows[i])
    /\ message_stats_frame(result) = result

(***************************************************************************)
(* chat_analysis.rename_folders(directory).  A name is a sequence of code  *)
(* points; the directory is a set of folders, each with its name and       *)
(* whether it is empty.  main() calls rename_folders once, before          *)
(* call_folder, when the user agrees.                                      *)
(***************************************************************************)
\* folders of the directory
MaxFolders == 3

Underscore == 95

Hyphen == 45

\* "a_1", "a_2", "a_3", "b_1", and "a", a name without underscore
FolderNames ==
    { <<97, 95, 49>>, <<97, 95, 50>>, <<97, 95, 51>>, <<98, 95, 49>>, <<97>> }

Folders == [name : FolderNames, empty : BOOLEAN]

NamesOf(dir) == { e.name : e \in dir }

\* the directories of at most MaxFolders folders, no name held twice
Directories ==
    { d \in SUBSET Folders :
         /\ Cardinality(d) <= MaxFolders
         /\ Cardinality(NamesOf(d)) = Cardinality(d) }

\* re.split("\_", item): the parts between the underscores
RECURSIVE SplitOnFrom(_, _, _)
SplitOnFrom(s, i, cur) ==
    IF i > Len(s) THEN <<cur>>
    ELSE IF s[i] = Underscore THEN <<cur>> \o SplitOnFrom(s, i + 1, <<>>)
    ELSE SplitOnFrom(s, i + 1, Append(cur, s[i]))

re_split(name) == SplitOnFrom(name, 1, <<>>)

\* os.rename(src, dst) on folders: the outcomes [exc, dir].  A dst that is
\* a folder with entries raises OSError; an empty dst is replaced on POSIX
\* and raises FileExistsError, an OSError, on Windows.
os_rename(dir, src, dst) ==
    LET target == { e \in dir : e.name = dst }
        moved  == { IF e.name = src THEN [e EXCEPT !.name = dst] ELSE e :
                       e \in dir \ target }
    IN IF target = {} THEN { [exc |-> "", dir |-> moved] }
       ELSE IF \E e \in target : ~e.empty THEN { [exc |-> "OSError", dir |-> dir] }
       ELSE { [exc |-> "", dir |-> moved], [exc |-> "OSError", dir |-> dir] }

InitRename ==
    /\ root = <<>>
    /\ pc = "main"
    /\ mode = "none"
    /\ chosen = 0
    /\ result = NoResult
    /\ shown = Nothing
    /\ directory \in Directories
    /\ all_items = <<>>
    /\ item = 0
    /\ previous_name = <<>>

\* all_items = os.listdir(normalized_directory): the names in any order
ListDir ==
    /\ pc = "main"
    /\ \E order \in Permuted(SeqOfSet(NamesOf(directory))) :
          /\ all_items' = order
          /\ pc' = IF order = <<>> THEN "renamed" ELSE "loop"
    /\ item' = 1
    /\ UNCHANGED <<root, mode, chosen, result, shown, directory, previous_name>>

split_name == re_split(all_items[item])

base_name == split_name[1]

AfterItem == IF item + 1 > Len(all_items) THEN "renamed" ELSE "loop"

\* len(split_name) != 2: the item keeps its name
SkipItem ==
    /\ pc = "loop"
    /\ Len(split_name) # 2
    /\ item' = item + 1
    /\ pc' = AfterItem
    /\ UNCHANGED <<root, mode, chosen, result, shown, directory, all_items, previous_name>>

\* os.rename(item, new_name); previous_name = new_name.  An OSError is not
\* caught and ends the program.
RenameItem(new_name) ==
    /\ \E o \in os_rename(directory, all_items[item], new_name) :
          IF o.exc # ""
          THEN /\ pc' = "crashed"
               /\ UNCHANGED <<directory, item, previous_name>>
          ELSE /\ directory' = o.dir
               /\ previous_name' = new_name
               /\ item' = item + 1
               /\ pc' = AfterItem
    /\ UNCHANGED <<root, mode, chosen, result, shown, all_items>>

\* previous_name != base_name
RenameToBase ==
    /\ pc = "loop"
    /\ Len(split_name) = 2
    /\ previous_name # base_name
    /\ RenameItem(base_name)

\* previous_name == base_name: new_name = base_name + "-"
RenameWithHyphen ==
    /\ pc = "loop"
    /\ Len(split_name) = 2
    /\ previous_name = base_name
    /\ RenameItem(base_name \o <<Hyphen>>)

NextRename ==
    \/ ListDir
    \/ SkipItem
    \/ RenameToBase
    \/ RenameWithHyphen

SpecRename == InitRename /\ [][NextRename]_vars

(***************************************************************************)
(* C23: rename_folders keeps the folder names unique: whatever the entries *)
(* and the order of the listing, no rename fails or replaces another       *)
(* folder, no two folders get the same name, and the number of entries     *)
(* stays what it was.                                                      *)
(***************************************************************************)
C23_RenamesKeepNamesUnique ==
    (item > 0)
    => /\ pc # "crashed"
       /\ Cardinality(directory) = Len(all_items)
       /\ Cardinality(NamesOf(directory)) = Cardinality(directory)

(***************************************************************************)
(* C24: every canonical table single_folder.clean_messages returns, one    *)
(* without a call-duration column included, is accepted by the aggregators *)
(* of the menu: top_words, plot_message_distribution and                   *)
(* total_message_frequency complete on it without error, as message_stats  *)
(* does.                                                                   *)
(***************************************************************************)
C24_SingleTableAcceptedByAggregators ==
    (/\ mode = "single"
     /\ Returned(result)
     /\ shown.kind \in {"message_stats", "top_words", "plot_message_distribution",
                        "total_message_frequency"})
    => Returned(shown.out)

(***************************************************************************)
(* C25: the two cleaning pipelines agree on one conversation: for a root   *)
(* holding exactly one conversation folder all_folders.clean_messages      *)
(* returns the rows single_folder.clean_messages returns for that folder,  *)
(* in the same order and with the same sender, timestamp, date, time,      *)
(* message, call duration, word count and emoji count; the only            *)
(* difference is the extra column of the conversation title.               *)
(***************************************************************************)
C25_PipelinesAgreeOnOneConversation ==
    (mode = "all" /\ Len(root) = 1 /\ IsDir(root[1]))
    => LET single == clean_messages_single(root[1]) IN
       /\ Returned(result) <=> Returned(single)
       /\ Returned(single)
          => /\ result.cols = single.cols \cup {"Title"}
             /\ Len(result.rows) = Len(single.rows)
             /\ \A i \in 1..Len(single.rows) :
                   /\ result.rows[i].id = single.rows[i].id
                   /\ \A k \in single.cols :
                         result.rows[i].c[k] = single.rows[i].c[k]

=============================================================================
